---------------------------- MODULE Spec2Model ----------------------------
(***************************************************************************)
(* Shape-morphing engine of the portrait generator: AppState (vector,      *)
(* face parameters, shape cache), AnimationController (morph state) and    *)
(* PortraitApp (debounce and start-delay timers, change guard).            *)
(*                                                                         *)
(* Numbers.  Vector components are integers in -1..1.  Weights are kept in *)
(* tenths, so a feature score s is the integer 10*s (ScoreDen = 10).       *)
(* Animation progress p is the integer p*Den, Den = MorphFrames^3, which   *)
(* makes every value of the cubic ease-out at a frame boundary exact.      *)
(* Library coordinates are multiples of Unit = (SAMPLE_POINTS-1)*Den and   *)
(* all library segments are axis-parallel, which makes arc lengths,        *)
(* resampled points and interpolated points exact integers.                *)
(* Index selection is computed in exact arithmetic; on the inputs used by  *)
(* the state machine (6 faces, the configured weights, components in       *)
(* -1..1) this agrees with the IEEE-754 evaluation of the source.          *)
(***************************************************************************)
EXTENDS Integers, Sequences, FiniteSets, TLC

(* ------------------------------ bounds -------------------------------- *)

\* animation frames per morph (anime.js ticks between start and completion)
MorphFrames == 2

\* vector updates that revisit an earlier vector during the cache sweep
MaxRevisits == 1

\* largest library size tried by the index-selection specification
MaxFaceCount == 7

\* how far outside [-1, 1] the scores tried by it go, in units of 1/ScoreDen
ScoreMargin == 2

\* vectors visited by the cache sweep
SweepLength == 66

\* largest point count asked of resample by the resampling specification
MaxSamples == 5

\* longest polyline given to it
MaxPoints == 3

\* longest time between two frames given to Morph.update, in time steps
MaxDt == 3

(* -------------------------- program constants ------------------------- *)

FACES_COUNT == 6

SAMPLE_POINTS == 32

START_DELAY_MS == 500

CACHE_LIMIT == 50

\* weights are authored with one decimal: scores are kept as score*ScoreDen
ScoreDen == 10

Den == MorphFrames * MorphFrames * MorphFrames

Unit == (SAMPLE_POINTS - 1) * Den

\* null and undefined object references
Null == [null |-> TRUE]

Abs(n) == IF n < 0 THEN -n ELSE n

Max(a, b) == IF a >= b THEN a ELSE b

Min(a, b) == IF a <= b THEN a ELSE b

FEATURES == <<"head", "left_eye", "right_eye", "mouth">>

INDEX_FEATURES == <<"head", "eye", "mouth">>

DIMENSIONS == <<"e_i", "s_n", "t_f", "j_p">>

DEFAULT_VALUES == <<0, 0, 0, 0>>

\* the weight table with the eye weights of the worked example of the
\* documentation, which gives the T/F dimension the weight 0.1
FEATURE_WEIGHTS_Example ==
  [ eye      |-> [e_i |-> -3, s_n |-> -2, t_f |-> 1, j_p |-> 5],
    mouth    |-> [e_i |-> -5, t_f |-> -5],
    head     |-> [s_n |-> 6, t_f |-> 4],
    movement |-> [s_n |-> -4, j_p |-> 6] ]

\* CONFIG.MBTI.FEATURE_WEIGHTS, in tenths
FEATURE_WEIGHTS ==
  [ eye      |-> [e_i |-> -3, s_n |-> -2, j_p |-> 5],
    mouth    |-> [e_i |-> -5, t_f |-> -5],
    head     |-> [s_n |-> 6, t_f |-> 4],
    movement |-> [s_n |-> -4, j_p |-> 6] ]

(* ------------------------------ library ------------------------------- *)

Pt(x, y) == [x |-> x * Unit, y |-> y * Unit]

\* FaceGenerator.arrayToPoints of data[field]: a missing array becomes the
\* empty polyline
arrayToPoints(data, field) ==
  IF field \in DOMAIN data THEN data[field] ELSE <<>>

\* The six face files (JS index i = 0..5).  Heads of faces 4 and 5 have three
\* points, the others two; face 4 has a three-point left eye; face 0 has no
\* mouth.
FaceFile(i) ==
  LET face      == IF i < 4 THEN <<Pt(0, 0), Pt(i + 1, 0)>>
                   ELSE <<Pt(0, 0), Pt(i + 1, 0), Pt(i + 1, 1)>>
      left_eye  == IF i = 4 THEN <<Pt(1, i + 2), Pt(2, i + 2), Pt(2, i + 3)>>
                   ELSE <<Pt(1, i + 2), Pt(2, i + 2)>>
      right_eye == <<Pt(4, i + 2), Pt(5, i + 2)>>
      mouth     == <<Pt(2, 8), Pt(2, 8 + i), Pt(4, 8 + i)>>
  IN  IF i = 0
      THEN [face |-> face, left_eye |-> left_eye, right_eye |-> right_eye]
      ELSE [face |-> face, left_eye |-> left_eye, right_eye |-> right_eye,
            mouth |-> mouth]

\* FaceGenerator.loadFaceData: raw conversion and normalizeFaceSet
\* (PRE_NORMALIZE_POINTS is false)
LoadedFaceSets ==
  [ n \in 1..FACES_COUNT |->
      LET data == FaceFile(n - 1) IN
      [ head      |-> arrayToPoints(data, "face"),
        left_eye  |-> arrayToPoints(data, "left_eye"),
        right_eye |-> arrayToPoints(data, "right_eye"),
        mouth     |-> arrayToPoints(data, "mouth") ] ]

(* --------------------------- feature mapping -------------------------- *)

Weight(w, dim) == IF dim \in DOMAIN w THEN w[dim] ELSE 0

\* a score computation that assigns each term instead of adding it
calculateFaceParametersLastOnly(v) ==
  [ feature \in DOMAIN FEATURE_WEIGHTS |->
      LET weights == FEATURE_WEIGHTS[feature] IN
      IF "j_p" \in DOMAIN weights THEN weights["j_p"] * v[4]
      ELSE IF "t_f" \in DOMAIN weights THEN weights["t_f"] * v[3]
      ELSE IF "s_n" \in DOMAIN weights THEN weights["s_n"] * v[2]
      ELSE Weight(weights, "e_i") * v[1] ]

\* a score computation in which a dimension without a weight for the feature
\* counts with the weight 0.1
calculateFaceParametersEveryDimension(v) ==
  [ feature \in DOMAIN FEATURE_WEIGHTS |->
      LET weights == FEATURE_WEIGHTS[feature]
          W(dim) == IF dim \in DOMAIN weights THEN weights[dim] ELSE 1
      IN  W("e_i") * v[1] + W("s_n") * v[2] + W("t_f") * v[3] + W("j_p") * v[4] ]

\* AppState.calculateFaceParameters
calculateFaceParameters(v) ==
  [ feature \in DOMAIN FEATURE_WEIGHTS |->
      LET weights == FEATURE_WEIGHTS[feature] IN
        Weight(weights, "e_i") * v[1] + Weight(weights, "s_n") * v[2]
      + Weight(weights, "t_f") * v[3] + Weight(weights, "j_p") * v[4] ]

\* faceParams[feature] || 0
Param(params, feature) ==
  IF feature \in DOMAIN params THEN params[feature] ELSE 0

\* a selection that does not clamp the score
SelectIndexNoClamp(score, faceCount) ==
  LET selectedIndex == ((score + ScoreDen) * faceCount) \div (2 * ScoreDen)
  IN  IF selectedIndex >= faceCount THEN faceCount - 1 ELSE selectedIndex

\* a selection that forgets the score = 1.0 edge case
SelectIndexNoEdge(score, faceCount) ==
  LET clampedScore == Max(-ScoreDen, Min(ScoreDen, score))
  IN  ((clampedScore + ScoreDen) * faceCount) \div (2 * ScoreDen)

\* clamp, normalise, floor(normalizedScore / segmentSize), clamp to faceCount-1
SelectIndex(score, faceCount) ==
  LET clampedScore == Max(-ScoreDen, Min(ScoreDen, score))
      selectedIndex == IF faceCount = 0 THEN 0
                       ELSE ((clampedScore + ScoreDen) * faceCount) \div (2 * ScoreDen)
  IN  IF selectedIndex >= faceCount THEN faceCount - 1 ELSE selectedIndex

\* a selection that spreads the score over faceCount - 1 segments
AppStateGetShapeIndicesScaled(params, faceCount) ==
  [ feature \in {"head", "eye", "mouth"} |->
      LET clampedScore == Max(-ScoreDen, Min(ScoreDen, Param(params, feature)))
      IN  ((clampedScore + ScoreDen) * (faceCount - 1)) \div (2 * ScoreDen) ]

\* AppState.getShapeIndices
AppStateGetShapeIndices(params, faceCount) ==
  [ feature \in {"head", "eye", "mouth"} |->
      SelectIndex(Param(params, feature), faceCount) ]

\* FaceGenerator.getShapeIndices
FaceGeneratorGetShapeIndices(params, faceCount) ==
  [ feature \in {"head", "eye", "mouth"} |->
      LET score == Param(params, feature)
          clampedScore == Max(-ScoreDen, Min(ScoreDen, score))
          selectedIndex == IF faceCount = 0 THEN 0
                           ELSE ((clampedScore + ScoreDen) * faceCount) \div (2 * ScoreDen)
      IN  IF selectedIndex >= faceCount THEN faceCount - 1 ELSE selectedIndex ]

\* JSON.stringify of {head, eye, mouth}: the three numbers in key order
JSONStringify(indices) ==
  IF indices = Null THEN <<-1>>
  ELSE <<indices.head, indices.eye, indices.mouth>>

\* AppState.getFeatureFromScore
getFeatureFromScore(sets, score, featureName, faceCount) ==
  LET clampedScore == Max(-ScoreDen, Min(ScoreDen, score))
      selectedIndex == IF faceCount = 0 THEN 0
                       ELSE ((clampedScore + ScoreDen) * faceCount) \div (2 * ScoreDen)
      idx == IF selectedIndex >= faceCount THEN faceCount - 1 ELSE selectedIndex
  IN  IF idx + 1 \in DOMAIN sets THEN sets[idx + 1][featureName] ELSE <<>>

(* ------------------------------ polylines ----------------------------- *)

RECURSIVE ISqrtFrom(_, _)
ISqrtFrom(n, r) == IF (r + 1) * (r + 1) > n THEN r ELSE ISqrtFrom(n, r + 1)

\* morph.js dist2 (Math.hypot); exact on axis-parallel segments
dist2(a, b) ==
  LET dx == a.x - b.x
      dy == a.y - b.y
  IN  IF dx = 0 THEN Abs(dy)
      ELSE IF dy = 0 THEN Abs(dx)
      ELSE ISqrtFrom(dx * dx + dy * dy, 0)

RECURSIVE PathLength(_, _)
PathLength(P, i) ==
  IF i > Len(P) THEN 0 ELSE dist2(P[i - 1], P[i]) + PathLength(P, i + 1)

\* Array.prototype.splice(index, 0, item) at 1-based position i
Splice(P, i, item) ==
  SubSeq(P, 1, i - 1) \o <<item>> \o SubSeq(P, i, Len(P))

\* one pass through the body of the while loop of morph.js resample, which
\* does nothing once result.length >= N; st.ci is currentIndex + 1
ResampleStep(st, N, stepSize) ==
  IF Len(st.result) >= N THEN st
  ELSE IF st.ci > Len(st.P)
    THEN [st EXCEPT !.result = Append(@, st.P[Len(st.P)])]
  ELSE
    LET previousPoint == st.previousPoint
        currentPoint == st.P[st.ci]
        segmentLength == dist2(previousPoint, currentPoint)
    IN  IF st.accumulatedDistance + segmentLength >= stepSize
        THEN LET distanceNeeded == stepSize - st.accumulatedDistance
                 interpolatedPoint ==
                   [ x |-> previousPoint.x
                           + ((currentPoint.x - previousPoint.x) * distanceNeeded)
                             \div segmentLength,
                     y |-> previousPoint.y
                           + ((currentPoint.y - previousPoint.y) * distanceNeeded)
                             \div segmentLength ]
             IN  [ P |-> Splice(st.P, st.ci, interpolatedPoint),
                   result |-> Append(st.result, interpolatedPoint),
                   accumulatedDistance |-> 0,
                   ci |-> st.ci,
                   previousPoint |-> interpolatedPoint ]
        ELSE [ st EXCEPT !.accumulatedDistance = @ + segmentLength,
                         !.previousPoint = currentPoint,
                         !.ci = @ + 1 ]

\* k passes through the loop body
RECURSIVE ResampleSteps(_, _, _, _)
ResampleSteps(st, N, stepSize, k) ==
  IF k = 0 THEN st
  ELSE IF k = 1 THEN ResampleStep(st, N, stepSize)
  ELSE LET half == k \div 2
           mid == ResampleSteps(st, N, stepSize, half)
       IN  \* while (result.length < N)
           IF Len(mid.result) < N
           THEN ResampleSteps(mid, N, stepSize, k - half)
           ELSE mid

\* a resample whose degenerate case returns a single copy of the first point
ResampleComputeOneCopy(points, N) ==
  IF Len(points) = 0 THEN <<>>
  ELSE
    LET totalLength == PathLength(points, 2) IN
    IF totalLength = 0 THEN <<points[1]>>
    ELSE IF N <= 1 THEN <<points[1]>>
    ELSE ResampleSteps(
           [ P |-> points, result |-> <<points[1]>>, accumulatedDistance |-> 0,
             ci |-> 2, previousPoint |-> points[1] ],
           N, totalLength \div (N - 1), 2 * N + Len(points)).result

\* a resample whose degenerate case returns the input itself
ResampleComputeDegenerate(points, N) ==
  IF Len(points) = 0 THEN <<>>
  ELSE
    LET totalLength == PathLength(points, 2) IN
    IF totalLength = 0 THEN points
    ELSE IF N <= 1 THEN <<points[1]>>
    ELSE ResampleSteps(
           [ P |-> points, result |-> <<points[1]>>, accumulatedDistance |-> 0,
             ci |-> 2, previousPoint |-> points[1] ],
           N, totalLength \div (N - 1), 2 * N + Len(points)).result

\* a resample that closes a path of more than two points by walking back to
\* its first point
ResampleComputeClosed(points, N) ==
  IF Len(points) = 0 THEN <<>>
  ELSE
    LET closed == IF Len(points) > 2 THEN Append(points, points[1]) ELSE points
        totalLength == PathLength(closed, 2)
    IN
    IF totalLength = 0 THEN [k \in 1..N |-> points[1]]
    ELSE IF N <= 1 THEN <<points[1]>>
    ELSE ResampleSteps(
           [ P |-> closed, result |-> <<points[1]>>, accumulatedDistance |-> 0,
             ci |-> 2, previousPoint |-> points[1] ],
           N, totalLength \div (N - 1), 2 * N + Len(closed)).result

\* morph.js resample(points, N), computed.  The loop ends within
\* 2N + points.length passes: each pass adds a point to result or moves to
\* the next segment.
ResampleCompute(points, N) ==
  IF Len(points) = 0 THEN <<>>
  ELSE
    LET totalLength == PathLength(points, 2) IN
    IF totalLength = 0 THEN [k \in 1..N |-> points[1]]
    ELSE IF N <= 1 THEN <<points[1]>>
    ELSE ResampleSteps(
           [ P |-> points, result |-> <<points[1]>>, accumulatedDistance |-> 0,
             ci |-> 2, previousPoint |-> points[1] ],
           N, totalLength \div (N - 1), 2 * N + Len(points)).result

\* resample is a pure function: its values at SAMPLE_POINTS on the polylines
\* of the library are tabulated once, as pairs <<points, resample(points)>>
ResampleTable ==
  { <<LoadedFaceSets[i][FEATURES[k]],
      ResampleCompute(LoadedFaceSets[i][FEATURES[k]], SAMPLE_POINTS)>> :
      i \in 1..FACES_COUNT, k \in 1..Len(FEATURES) }

\* morph.js resample(points, N)
resample(points, N) ==
  IF N = SAMPLE_POINTS /\ \E e \in ResampleTable : e[1] = points
  THEN (CHOOSE e \in ResampleTable : e[1] = points)[2]
  ELSE ResampleCompute(points, N)

\* FaceGenerator.resamplePoints
resamplePoints(points, targetCount) ==
  IF Len(points) = 0 THEN <<>>
  ELSE IF Len(points) = targetCount THEN points
  ELSE IF targetCount = 1 THEN <<points[1]>>
  ELSE resample(points, targetCount)

\* easeOutCubic at frame e of MorphFrames, as a numerator over Den
easeOutCubic(e) ==
  LET r == MorphFrames - e IN Den - r * r * r

\* p1 + (p2 - p1) * factor, factor a numerator over Den
lerpPt(p1, p2, factor) ==
  [ x |-> p1.x + ((p2.x - p1.x) * factor) \div Den,
    y |-> p1.y + ((p2.y - p1.y) * factor) \div Den ]

RESAMPLE_DURING_MORPH == TRUE

\* a morph that resamples mismatched polylines to the longer one's point
\* count instead of the configured SAMPLE_POINTS
morphFeaturePointsMaxCount(points1, points2, factor) ==
  IF Len(points1) = 0 /\ Len(points2) = 0 THEN <<>>
  ELSE IF Len(points1) = 0 THEN points2
  ELSE IF Len(points2) = 0 THEN points1
  ELSE IF factor <= 0 THEN points1
  ELSE IF factor >= Den THEN points2
  ELSE LET targetCount == Max(Len(points1), Len(points2))
           p1r == ResampleCompute(points1, targetCount)
           p2r == ResampleCompute(points2, targetCount)
       IN  [i \in 1..Len(p1r) |-> lerpPt(p1r[i], p2r[i], factor)]

\* a morph without the early returns at the two ends of the progress range
morphFeaturePointsNoEnds(points1, points2, factor) ==
  IF Len(points1) = 0 /\ Len(points2) = 0 THEN <<>>
  ELSE IF Len(points1) = 0 THEN points2
  ELSE IF Len(points2) = 0 THEN points1
  ELSE IF Len(points1) = Len(points2)
    THEN [i \in 1..Len(points1) |-> lerpPt(points1[i], points2[i], factor)]
  ELSE LET p1r == resample(points1, SAMPLE_POINTS)
           p2r == resample(points2, SAMPLE_POINTS)
       IN  [i \in 1..Len(p1r) |-> lerpPt(p1r[i], p2r[i], factor)]

\* a morph without the branches for an empty polyline
morphFeaturePointsNoEmpty(points1, points2, factor) ==
  IF factor <= 0 THEN points1
  ELSE IF factor >= Den THEN points2
  ELSE LET p1r == resample(points1, SAMPLE_POINTS)
           p2r == resample(points2, SAMPLE_POINTS)
       IN  [i \in 1..Min(Len(p1r), Len(p2r)) |-> lerpPt(p1r[i], p2r[i], factor)]

\* AnimationController.morphFeaturePoints
morphFeaturePoints(points1, points2, factor) ==
  IF Len(points1) = 0 /\ Len(points2) = 0 THEN <<>>
  ELSE IF Len(points1) = 0 THEN points2
  ELSE IF Len(points2) = 0 THEN points1
  ELSE IF factor <= 0 THEN points1
  ELSE IF factor >= Den THEN points2
  ELSE IF Len(points1) = Len(points2)
    THEN [i \in 1..Len(points1) |-> lerpPt(points1[i], points2[i], factor)]
  ELSE IF RESAMPLE_DURING_MORPH
    THEN LET targetCount == IF SAMPLE_POINTS # 0 THEN SAMPLE_POINTS
                            ELSE Max(Len(points1), Len(points2))
             p1r == resample(points1, targetCount)
             p2r == resample(points2, targetCount)
         IN  [i \in 1..Len(p1r) |-> lerpPt(p1r[i], p2r[i], factor)]
  ELSE LET targetCount == Max(Len(points1), Len(points2)) IN
       [ i \in 1..targetCount |->
           lerpPt(points1[((i - 1) % Len(points1)) + 1],
                  points2[((i - 1) % Len(points2)) + 1], factor) ]

\* shapes[feature] || []
FeatureOf(shapes, feature) ==
  IF feature \in DOMAIN shapes THEN shapes[feature] ELSE <<>>

\* AnimationController.deepCloneShapes
deepCloneShapes(shapes) ==
  IF shapes = Null THEN Null
  ELSE [ feature \in {f \in {"head", "left_eye", "right_eye", "mouth"} :
                        f \in DOMAIN shapes} |-> shapes[feature] ]

(* ---------------------------- the Morph class ------------------------- *)

\* An instance is the record of its fields.  Time is counted in steps of which
\* the duration holds MorphFrames, and t is kept as the integer t * dur, so
\* that t + dt / dur is exact and the eased progress is easeOutCubic(t) over
\* Den.

\* new Morph(variants, key, count, durationSec)
MorphNew(variants, key, count, durationSec) ==
  [ variants |-> variants,
    N |-> count,
    curr |-> resample(variants[key], count),
    target |-> resample(variants[key], count),
    t |-> durationSec,
    dur |-> durationSec ]

\* Morph.setTarget
setTarget(m, key) ==
  [m EXCEPT !.target = resample(m.variants[key], m.N), !.t = 0]

\* an update that starts over once the progress has reached 1
updateRestart(m, dt) ==
  IF m.t < m.dur THEN [m EXCEPT !.t = Min(m.dur, m.t + dt)]
  ELSE [m EXCEPT !.t = IF dt > 0 THEN 0 ELSE @]

\* an update that adds dt / dur without the upper limit
updateNoLimit(m, dt) ==
  IF m.t < m.dur THEN [m EXCEPT !.t = m.t + dt] ELSE m

\* Morph.update
update(m, dt) ==
  IF m.t < m.dur THEN [m EXCEPT !.t = Min(m.dur, m.t + dt)] ELSE m

\* Morph.points
MorphPoints(m) ==
  IF m.t >= m.dur THEN m.target
  ELSE LET easedT == easeOutCubic(m.t) IN
       [i \in 1..Len(m.curr) |-> lerpPt(m.curr[i], m.target[i], easedT)]

\* Morph.commitIfDone
commitIfDone(m) ==
  IF m.t >= m.dur THEN [m EXCEPT !.curr = m.target] ELSE m

(* -------------------------------- state ------------------------------- *)

VARIABLES
  \* AppState
  mbti, faceParams, isDataLoaded, faceSets, shapeCache, lastShapeIndices, mode,
  \* AnimationController (animation: the anime.js instance driving progress)
  state, currentShapes, targetShapes, morphedShapes, animation, progress,
  onCompleteCallback,
  \* PortraitApp
  morphTimeout, morphStartTimeout, currentShapeIndices, mbtiAnimationProgress,
  \* what the last draw() left on the canvas
  canvas,
  \* pending setTimeout callbacks of the page (records with the id, the kind,
  \* the shapes and parameters the callback closes over, and whether the timer
  \* is due before the pending start-delay timer), and the phase of
  \* initialize()
  timers, phase,
  \* history: the index set of the last vector update; whether the update
  \* before it selected the same index set and had its debounce callback run;
  \* whether the last update superseded, within its debounce window and with
  \* the animator idle, an update that selected the committed index set; how
  \* many animations were started and how many debounce callbacks were run
  \* since the last update
  lastUpdateIndices, twoSame, supersededSame, startsSinceUpdate,
  firesSinceUpdate,
  \* history: the animations started since the last input, when that input
  \* was a dialogue update in Q&A mode that found the animator idle and
  \* selected another index set than the committed one (-1 otherwise)
  chatStarts,
  \* cache sweep: position in the sweep, revisits made, keys inserted
  sweepPos, revisits, inserts,
  \* index selection: library size, score and selected index
  selCount, selScore, selIndex,
  \* resampling: the polyline, the point count asked for, and the results of
  \* resample and of FaceGenerator.resamplePoints
  rsPoints, rsN, rsOut, rsGen,
  \* the Morph class: an instance (null before it is constructed) and the
  \* last method called on it, with its argument and whether the progress
  \* had reached 1 before the call
  morph, morphCall

progVars ==
  << mbti, faceParams, isDataLoaded, faceSets, shapeCache, lastShapeIndices,
     mode, state, currentShapes, targetShapes, morphedShapes, animation,
     progress, onCompleteCallback, morphTimeout, morphStartTimeout,
     currentShapeIndices, mbtiAnimationProgress, canvas, timers, phase,
     lastUpdateIndices, twoSame, supersededSame, startsSinceUpdate,
     firesSinceUpdate, chatStarts, inserts >>

sweepVars == << sweepPos, revisits >>

selVars == << selCount, selScore, selIndex >>

resVars == << rsPoints, rsN, rsOut, rsGen >>

morphVars == << morph, morphCall >>

vars == << progVars, sweepVars, selVars, resVars, morphVars >>

\* the program state as one record, so that a handler is the composition of
\* the calls it makes
Cur ==
  [ mbti |-> mbti, faceParams |-> faceParams, isDataLoaded |-> isDataLoaded,
    faceSets |-> faceSets, shapeCache |-> shapeCache,
    lastShapeIndices |-> lastShapeIndices, mode |-> mode,
    state |-> state, currentShapes |-> currentShapes,
    targetShapes |-> targetShapes, morphedShapes |-> morphedShapes,
    animation |-> animation, progress |-> progress,
    onCompleteCallback |-> onCompleteCallback,
    morphTimeout |-> morphTimeout, morphStartTimeout |-> morphStartTimeout,
    currentShapeIndices |-> currentShapeIndices,
    mbtiAnimationProgress |-> mbtiAnimationProgress, canvas |-> canvas,
    timers |-> timers, phase |-> phase,
    lastUpdateIndices |-> lastUpdateIndices, twoSame |-> twoSame,
    supersededSame |-> supersededSame,
    startsSinceUpdate |-> startsSinceUpdate,
    firesSinceUpdate |-> firesSinceUpdate, chatStarts |-> chatStarts,
    inserts |-> inserts ]

\* timer handles: 0 is "no handle" (null), a positive number is the id
\* setTimeout returned.  A handle whose timer is no longer pending is kept as
\* the one value Stale: it is truthy and clearTimeout of it does nothing,
\* whichever id it was.
Stale == -1

TimerIds(ts) == {t.id : t \in ts}

Handle(ts, h) == IF h # 0 /\ h \notin TimerIds(ts) THEN Stale ELSE h

\* the handler's result n is computed once and becomes the next state
Become(s) ==
  \E n \in {s} :
    /\ mbti' = n.mbti
    /\ faceParams' = n.faceParams
    /\ isDataLoaded' = n.isDataLoaded
    /\ faceSets' = n.faceSets
    /\ shapeCache' = n.shapeCache
    /\ lastShapeIndices' = n.lastShapeIndices
    /\ mode' = n.mode
    /\ state' = n.state
    /\ currentShapes' = n.currentShapes
    /\ targetShapes' = n.targetShapes
    /\ morphedShapes' = n.morphedShapes
    /\ animation' = n.animation
    /\ progress' = n.progress
    /\ onCompleteCallback' = n.onCompleteCallback
    /\ morphTimeout' = Handle(n.timers, n.morphTimeout)
    /\ morphStartTimeout' = Handle(n.timers, n.morphStartTimeout)
    /\ currentShapeIndices' = n.currentShapeIndices
    /\ mbtiAnimationProgress' = n.mbtiAnimationProgress
    /\ canvas' = n.canvas
    /\ timers' = n.timers
    /\ phase' = n.phase
    /\ lastUpdateIndices' = n.lastUpdateIndices
    /\ twoSame' = n.twoSame
    /\ supersededSame' = n.supersededSame
    /\ startsSinceUpdate' = n.startsSinceUpdate
    /\ firesSinceUpdate' = n.firesSinceUpdate
    /\ chatStarts' = n.chatStarts
    /\ inserts' = n.inserts

(* ------------------------------- AppState ----------------------------- *)

CacheKeys(cache) == {cache[i].key : i \in 1..Len(cache)}

\* Map.get
CacheGet(cache, key) ==
  LET i == CHOOSE j \in 1..Len(cache) : cache[j].key = key IN cache[i].value

\* a cache that never deletes
CacheInsertNoEvict(cache, key, value) ==
  Append(cache, [key |-> key, value |-> value])

\* a cache that, when over capacity, deletes the entry it has just stored
CacheInsertEvictNewest(cache, key, value) ==
  IF Len(cache) + 1 > CACHE_LIMIT THEN cache
  ELSE Append(cache, [key |-> key, value |-> value])

\* Map.set of a key that is not present, then the size check that deletes
\* the first key of the map
CacheInsert(cache, key, value) ==
  LET added == Append(cache, [key |-> key, value |-> value]) IN
  IF Len(added) > CACHE_LIMIT THEN Tail(added) ELSE added

\* AppState.generateCurrentFaceShapes: the shapes returned and the state after
generateCurrentFaceShapes(s) ==
  IF ~s.isDataLoaded THEN [shapes |-> Null, s |-> s]
  ELSE
    LET faceCount == Len(s.faceSets)
        shapeIndices == AppStateGetShapeIndices(s.faceParams, faceCount)
        cacheKey == JSONStringify(shapeIndices)
    IN
    IF cacheKey \in CacheKeys(s.shapeCache)
    THEN [shapes |-> CacheGet(s.shapeCache, cacheKey), s |-> s]
    ELSE
      LET shapes ==
            [ head      |-> getFeatureFromScore(s.faceSets,
                              Param(s.faceParams, "head"), "head", faceCount),
              left_eye  |-> getFeatureFromScore(s.faceSets,
                              Param(s.faceParams, "eye"), "left_eye", faceCount),
              right_eye |-> getFeatureFromScore(s.faceSets,
                              Param(s.faceParams, "eye"), "right_eye", faceCount),
              mouth     |-> getFeatureFromScore(s.faceSets,
                              Param(s.faceParams, "mouth"), "mouth", faceCount) ]
      IN  [ shapes |-> shapes,
            s |-> [s EXCEPT !.shapeCache = CacheInsert(@, cacheKey, shapes),
                            !.lastShapeIndices = shapeIndices,
                            !.inserts = @ + 1] ]

(* ------------------------- AnimationController ------------------------ *)

\* the completion callback passed by startShapeMorphing: a closure over
\* newIndices that assigns currentShapeIndices
InvokeOnComplete(s, callback) ==
  IF callback = Null THEN s
  ELSE [s EXCEPT !.currentShapeIndices = callback.newIndices]

\* AnimationController.setInitialShapes
setInitialShapes(s, shapes) ==
  [s EXCEPT !.currentShapes = deepCloneShapes(shapes),
            !.morphedShapes = deepCloneShapes(shapes)]

\* AnimationController.startAnimation
startAnimation(s) ==
  [s EXCEPT !.state = "morphing",
            !.progress = 0,
            !.animation = [elapsed |-> 0],
            !.startsSinceUpdate = @ + 1,
            !.chatStarts = IF @ >= 0 THEN @ + 1 ELSE @]

\* a morphTo that restarts the running animation when it is given a new target
morphToRestart(s, target, onComplete) ==
  LET s1 == [s EXCEPT !.targetShapes = deepCloneShapes(target),
                      !.onCompleteCallback = onComplete]
  IN  IF s1.currentShapes = Null
      THEN InvokeOnComplete(
             [s1 EXCEPT !.currentShapes = deepCloneShapes(target),
                        !.morphedShapes = deepCloneShapes(target)],
             onComplete)
      ELSE startAnimation(s1)

\* AnimationController.morphTo
morphTo(s, target, onComplete) ==
  IF s.state = "morphing" /\ s.animation # Null
  THEN [s EXCEPT !.targetShapes = deepCloneShapes(target)]
  ELSE
    LET s1 == [s EXCEPT !.targetShapes = deepCloneShapes(target),
                        !.onCompleteCallback = onComplete]
    IN  IF s1.currentShapes = Null
        THEN InvokeOnComplete(
               [s1 EXCEPT !.currentShapes = deepCloneShapes(target),
                          !.morphedShapes = deepCloneShapes(target)],
               onComplete)
        ELSE startAnimation(s1)

\* an update of the morphed shapes that resamples the polylines of the
\* library themselves, the animator's shapes being the library's own arrays
updateMorphedShapesShared(s) ==
  IF s.currentShapes = Null \/ s.targetShapes = Null THEN s
  ELSE [s EXCEPT !.morphedShapes =
          [ feature \in {"head", "left_eye", "right_eye", "mouth"} |->
              morphFeaturePoints(FeatureOf(s.currentShapes, feature),
                                 FeatureOf(s.targetShapes, feature),
                                 s.progress) ],
                 !.faceSets =
          [ n \in DOMAIN s.faceSets |->
              [ feature \in DOMAIN s.faceSets[n] |->
                  IF s.faceSets[n][feature] \in
                       {FeatureOf(s.currentShapes, feature),
                        FeatureOf(s.targetShapes, feature)}
                  THEN resample(s.faceSets[n][feature], SAMPLE_POINTS)
                  ELSE s.faceSets[n][feature] ] ]]

\* AnimationController.updateMorphedShapes
updateMorphedShapes(s) ==
  IF s.currentShapes = Null \/ s.targetShapes = Null THEN s
  ELSE [s EXCEPT !.morphedShapes =
          [ feature \in {"head", "left_eye", "right_eye", "mouth"} |->
              morphFeaturePoints(FeatureOf(s.currentShapes, feature),
                                 FeatureOf(s.targetShapes, feature),
                                 s.progress) ]]

\* a completion that keeps the handle of the finished animation
completeAnimationKeepsHandle(s) ==
  InvokeOnComplete(
    [s EXCEPT !.state = "idle",
              !.currentShapes = deepCloneShapes(s.targetShapes),
              !.morphedShapes = deepCloneShapes(s.targetShapes),
              !.progress = Den],
    s.onCompleteCallback)

\* AnimationController.completeAnimation
completeAnimation(s) ==
  InvokeOnComplete(
    [s EXCEPT !.state = "idle",
              !.currentShapes = deepCloneShapes(s.targetShapes),
              !.morphedShapes = deepCloneShapes(s.targetShapes),
              !.progress = Den,
              !.animation = Null],
    s.onCompleteCallback)

\* AnimationController.stop (no handler of the page calls it)
stop(s) ==
  [s EXCEPT !.animation = Null, !.state = "idle"]

\* AnimationController.getCurrentShapes
getCurrentShapes(s) ==
  IF s.morphedShapes # Null THEN s.morphedShapes ELSE s.currentShapes

(* ------------------------------ PortraitApp --------------------------- *)

\* the id setTimeout returns: one that no pending timer uses (debounce
\* timers are given the odd ids, start-delay timers the even ones)
FreshTimerId(ts, kind) ==
  LET first == IF kind = "debounce" THEN 1 ELSE 2
      n == Cardinality({t \in ts : t.kind = kind})
  IN  CHOOSE id \in {first + 2 * k : k \in 0..n} :
        /\ id \notin TimerIds(ts)
        /\ \A k \in 0..n : first + 2 * k < id => first + 2 * k \in TimerIds(ts)

\* the timers of ts, marked as due before a timer that is armed now with the
\* start delay: the debounce delay is the shorter one
DueEarlier(ts) == {[t EXCEPT !.early = TRUE] : t \in ts}

\* a clearTimeout that cancels nothing
clearTimeoutNothing(ts, id) == ts

clearTimeout(ts, id) == {t \in ts : t.id # id}

\* a debounce that arms a new timer without cancelling the pending one
debouncedShapeMorphNoClear(s, newShapes, newParams) ==
  LET id == FreshTimerId(s.timers, "debounce")
  IN  [s EXCEPT !.timers = @ \cup
                  {[id |-> id, kind |-> "debounce", newShapes |-> newShapes,
                    newParams |-> newParams, early |-> FALSE]},
                !.morphTimeout = id]

\* a debounce that keeps the pending timer, and with it the first update of
\* the window, when another update arrives
debouncedShapeMorphLeading(s, newShapes, newParams) ==
  IF s.morphTimeout \in TimerIds(s.timers) THEN s
  ELSE LET id == FreshTimerId(s.timers, "debounce")
       IN  [s EXCEPT !.timers = @ \cup
                       {[id |-> id, kind |-> "debounce", newShapes |-> newShapes,
                         newParams |-> newParams, early |-> FALSE]},
                     !.morphTimeout = id]

\* PortraitApp.debouncedShapeMorph
debouncedShapeMorph(s, newShapes, newParams) ==
  LET cleared == IF s.morphTimeout # 0 THEN clearTimeout(s.timers, s.morphTimeout)
                 ELSE s.timers
      id == FreshTimerId(cleared, "debounce")
  IN  [s EXCEPT !.timers = cleared \cup
                  {[id |-> id, kind |-> "debounce", newShapes |-> newShapes,
                    newParams |-> newParams, early |-> FALSE]},
                !.morphTimeout = id]

\* PortraitApp.handleShapeUpdate
handleShapeUpdate(s, params) ==
  IF ~s.isDataLoaded THEN s
  ELSE LET g == generateCurrentFaceShapes(s) IN
       IF g.shapes # Null THEN debouncedShapeMorph(g.s, g.shapes, params)
       ELSE g.s

\* AppState.updateMBTI, with the 'mbti-changed' listener PortraitApp registers
updateMBTI(s, newValues) ==
  LET params == calculateFaceParameters(newValues)
      updateIndices == IF s.isDataLoaded
                       THEN AppStateGetShapeIndices(params, Len(s.faceSets))
                       ELSE Null
      s1 == [s EXCEPT !.mbti = newValues,
                      !.faceParams = params,
                      !.lastShapeIndices = Null,
                      !.lastUpdateIndices = updateIndices,
                      !.twoSame = /\ s.isDataLoaded
                                  /\ updateIndices = s.lastUpdateIndices
                                  /\ s.firesSinceUpdate > 0,
                      !.supersededSame =
                        /\ s.morphTimeout \in TimerIds(s.timers)
                        /\ s.state = "idle"
                        /\ s.lastUpdateIndices = s.currentShapeIndices,
                      !.startsSinceUpdate = 0,
                      !.firesSinceUpdate = 0]
  IN  handleShapeUpdate(s1, params)

\* a startShapeMorphing without the comparison of the index sets
startShapeMorphingNoGuard(s, newShapes, newParams) ==
  morphTo(s, newShapes,
          [newIndices |-> FaceGeneratorGetShapeIndices(newParams, Len(s.faceSets))])

\* PortraitApp.startShapeMorphing
startShapeMorphing(s, newShapes, newParams) ==
  LET newIndices == FaceGeneratorGetShapeIndices(newParams, Len(s.faceSets))
      currentIndices == s.currentShapeIndices
  IN  IF currentIndices # Null
         /\ JSONStringify(currentIndices) = JSONStringify(newIndices)
      THEN s
      ELSE morphTo(s, newShapes, [newIndices |-> newIndices])

\* a start-delay callback that leaves a pending debounce timer alone
startDelayCallbackKeepsDebounce(s) ==
  LET g == generateCurrentFaceShapes(s)
      s2 == IF g.shapes # Null
            THEN startShapeMorphing(g.s, g.shapes, g.s.faceParams)
            ELSE g.s
  IN  [s2 EXCEPT !.morphStartTimeout = 0]

\* the callback of the start-delay timer armed by startMorphingTo
startDelayCallback(s) ==
  LET s1 == IF s.morphTimeout # 0
            THEN [s EXCEPT !.timers = clearTimeout(@, s.morphTimeout),
                           !.morphTimeout = 0]
            ELSE s
      g == generateCurrentFaceShapes(s1)
      s2 == IF g.shapes # Null
            THEN startShapeMorphing(g.s, g.shapes, g.s.faceParams)
            ELSE g.s
  IN  [s2 EXCEPT !.morphStartTimeout = 0]

\* PortraitApp.startMorphingTo
startMorphingTo(s, targetValues) ==
  LET s1 == [s EXCEPT !.mbtiAnimationProgress =
                        [startValues |-> s.mbti, targetValues |-> targetValues]]
      s2 == IF s1.morphStartTimeout # 0
            THEN [s1 EXCEPT !.timers = clearTimeout(@, s1.morphStartTimeout),
                            !.morphStartTimeout = 0]
            ELSE s1
  IN  IF START_DELAY_MS > 0
      THEN LET id == FreshTimerId(s2.timers, "startDelay") IN
           [s2 EXCEPT !.timers = DueEarlier(@) \cup
                        {[id |-> id, kind |-> "startDelay", newShapes |-> Null,
                          newParams |-> Null, early |-> FALSE]},
                      !.morphStartTimeout = id]
      ELSE LET s3 == IF s2.morphTimeout # 0
                     THEN [s2 EXCEPT !.timers = clearTimeout(@, s2.morphTimeout),
                                     !.morphTimeout = 0]
                     ELSE s2
               g == generateCurrentFaceShapes(s3)
           IN  IF g.shapes # Null
               THEN startShapeMorphing(g.s, g.shapes, g.s.faceParams)
               ELSE g.s

\* a normalisation that scales without clamping
NormalizeScoresScaled(mbtiScores) ==
  [i \in 1..Len(mbtiScores) |-> mbtiScores[i] * 1]

\* Math.max(-1, Math.min(1, score * 1.0)) on every component
NormalizeScores(mbtiScores) ==
  [i \in 1..Len(mbtiScores) |-> Max(-1, Min(1, mbtiScores[i]))]

\* PortraitApp.handleChatMBTIUpdate
handleChatMBTIUpdate(s, mbtiScores) ==
  LET normalizedScores == NormalizeScores(mbtiScores)
      counted ==
        /\ s.isDataLoaded
        /\ s.state = "idle"
        /\ s.currentShapeIndices #
             AppStateGetShapeIndices(calculateFaceParameters(normalizedScores),
                                     Len(s.faceSets))
  IN
  IF s.mode = "qa"
  THEN startMorphingTo(
         updateMBTI([s EXCEPT !.chatStarts = IF counted THEN 0 ELSE -1],
                    normalizedScores),
         normalizedScores)
  ELSE updateMBTI([s EXCEPT !.chatStarts = -1], normalizedScores)

\* PortraitApp.handleMBTIChange
handleMBTIChange(s, mbtiValues) ==
  updateMBTI([s EXCEPT !.mbtiAnimationProgress = Null, !.chatStarts = -1],
             mbtiValues)

\* the update callback of the value animation started by startMorphingTo, at
\* eased progress p (a numerator over Den)
mbtiAnimationUpdate(s, p) ==
  LET a == s.mbtiAnimationProgress
      interpolatedValues ==
        [ i \in 1..Len(a.startValues) |->
            a.startValues[i]
            + ((a.targetValues[i] - a.startValues[i]) * p) \div Den ]
  IN  updateMBTI(s, interpolatedValues)

\* an initialize that does not record the initial index set
initializeNoBaseline(s) ==
  LET s1 == [s EXCEPT !.faceSets = LoadedFaceSets, !.isDataLoaded = TRUE]
      s2 == updateMBTI(s1, DEFAULT_VALUES)
      g  == generateCurrentFaceShapes(s2)
      s3 == setInitialShapes(g.s, g.shapes)
  IN  [s3 EXCEPT !.phase = "ready"]

\* PortraitApp.initialize after loadFaceData has resolved
initialize(s) ==
  LET s1 == [s EXCEPT !.faceSets = LoadedFaceSets, !.isDataLoaded = TRUE]
      s2 == updateMBTI(s1, DEFAULT_VALUES)
      g  == generateCurrentFaceShapes(s2)
      s3 == setInitialShapes(g.s, g.shapes)
  IN  [s3 EXCEPT !.currentShapeIndices =
                   IF s3.isDataLoaded
                   THEN FaceGeneratorGetShapeIndices(s3.faceParams,
                                                     Len(s3.faceSets))
                   ELSE @,
                 !.phase = "ready"]

\* a loadFaceData whose catch block publishes an empty library before it
\* rethrows
initializeRejectedLoaded(s) ==
  [s EXCEPT !.faceSets = <<>>, !.isDataLoaded = TRUE, !.phase = "failed"]

\* PortraitApp.initialize when loadFaceData rejects: setFaceData is not
\* reached, the error is rethrown and initialize() ends at the await
initializeRejected(s) ==
  [s EXCEPT !.phase = "failed"]

\* PortraitApp.addOrganicNoise: a new array of new points.  The value of
\* p5's noise() minus 0.5 is the sample the frame is given; the multiplier is
\* kept as 2 * ScoreDen times its value, and a displacement in units of
\* STRENGTH / (2 * ScoreDen).
addOrganicNoise(points, sample, movementMultiplier) ==
  [ i \in 1..Len(points) |->
      [ x |-> points[i].x + sample.x * movementMultiplier,
        y |-> points[i].y + sample.y * movementMultiplier ] ]

\* Renderer.composeFace: draws the parts (the eyes and the mouth through
\* scaled copies) and leaves a face on the canvas
composeFace(parts) == "face"

\* a draw whose noise displaces the points of the displayed head themselves
drawInPlace(s, sample) ==
  IF ~s.isDataLoaded THEN s
  ELSE LET cleared == [s EXCEPT !.canvas = "cleared"]
           facePoints == getCurrentShapes(cleared)
       IN  IF facePoints = Null THEN cleared
           ELSE LET movementStrength == Param(s.faceParams, "movement") + ScoreDen
                    head == addOrganicNoise(facePoints.head, sample,
                                            movementStrength)
                IN  [cleared EXCEPT !.canvas = composeFace(facePoints),
                                    !.morphedShapes =
                                      [facePoints EXCEPT !.head = head]]

\* PortraitApp.draw: the canvas is cleared and the face composed only when
\* the data is loaded and the animator has shapes; the head is drawn through
\* a displaced copy
draw(s, sample) ==
  IF ~s.isDataLoaded THEN s
  ELSE LET cleared == [s EXCEPT !.canvas = "cleared"]
           facePoints == getCurrentShapes(cleared)
       IN  IF facePoints = Null THEN cleared
           ELSE LET movementStrength == Param(s.faceParams, "movement") + ScoreDen
                    points ==
                      [ head |-> addOrganicNoise(facePoints.head, sample,
                                                 movementStrength),
                        left_eye |-> facePoints.left_eye,
                        right_eye |-> facePoints.right_eye,
                        mouth |-> facePoints.mouth ]
                IN  [cleared EXCEPT !.canvas = composeFace(points)]

(* ------------------------------- inputs ------------------------------- *)

\* vectors delivered by the sliders and the randomize button: one that
\* selects the same index set as the default vector, and two that select
\* other index sets
Vectors == { <<1, 1, -1, 1>>, <<0, 0, 0, 1>>, <<1, 1, 1, 1>> }

\* the vectors the randomize button delivers
RandomVectors == { <<0, 0, 0, 1>> }

\* accumulated (unclamped) scores delivered by the dialogue
ChatScores == { <<3, 1, 2, 1>> }

\* the noise samples a frame is drawn with: noise() - 0.5 at its two ends
NoiseSamples == {[x |-> a, y |-> -a] : a \in {-1, 1}}

\* the 81 vectors with components in -1..1, in a fixed order (n in 0..80)
SweepVector(n) ==
  << ((n \div 27) % 3) - 1, ((n \div 9) % 3) - 1, ((n \div 3) % 3) - 1,
     (n % 3) - 1 >>

(* ------------------------------- actions ------------------------------ *)

Init ==
  /\ mbti = DEFAULT_VALUES
  /\ faceParams = Null
  /\ isDataLoaded = FALSE
  /\ faceSets = <<>>
  /\ shapeCache = <<>>
  /\ lastShapeIndices = Null
  /\ mode = "chat"
  /\ state = "idle"
  /\ currentShapes = Null
  /\ targetShapes = Null
  /\ morphedShapes = Null
  /\ animation = Null
  /\ progress = Den
  /\ onCompleteCallback = Null
  /\ morphTimeout = 0
  /\ morphStartTimeout = 0
  /\ currentShapeIndices = Null
  /\ mbtiAnimationProgress = Null
  /\ canvas = "untouched"
  /\ timers = {}
  /\ phase = "constructed"
  /\ lastUpdateIndices = Null
  /\ twoSame = FALSE
  /\ supersededSame = FALSE
  /\ startsSinceUpdate = 0
  /\ firesSinceUpdate = 0
  /\ chatStarts = -1
  /\ inserts = 0
  /\ sweepPos = 0
  /\ revisits = 0
  /\ selCount = 1
  /\ selScore = 0
  /\ selIndex = Null
  /\ rsPoints = <<>>
  /\ rsN = 0
  /\ rsOut = <<>>
  /\ rsGen = <<>>
  /\ morph = Null
  /\ morphCall = Null

Running == phase \in {"ready", "failed"}

\* initialize(): loadFaceData resolves
Initialize ==
  /\ phase = "constructed"
  /\ Become(initialize(Cur))
  /\ UNCHANGED << sweepVars, selVars, resVars, morphVars >>

\* initialize(): loadFaceData rejects, initialize() throws before anything else
InitializeFails ==
  /\ phase = "constructed"
  /\ Become(initializeRejected(Cur))
  /\ UNCHANGED << sweepVars, selVars, resVars, morphVars >>

\* a slider change
HandleMBTIChange ==
  /\ Running
  /\ \E v \in Vectors : Become(handleMBTIChange(Cur, v))
  /\ UNCHANGED << sweepVars, selVars, resVars, morphVars >>

\* the randomize button
RandomizeMBTI ==
  /\ Running
  /\ \E v \in RandomVectors :
       Become(updateMBTI([Cur EXCEPT !.chatStarts = -1], v))
  /\ UNCHANGED << sweepVars, selVars, resVars, morphVars >>

\* an answer in the dialogue
HandleChatMBTIUpdate ==
  /\ Running
  /\ \E scores \in ChatScores : Become(handleChatMBTIUpdate(Cur, scores))
  /\ UNCHANGED << sweepVars, selVars, resVars, morphVars >>

\* handleWorkflowChange('qa') and the reset button ('chat'); the handlers
\* modelled here test the mode only for 'qa', so 'self' acts as 'chat' does
UpdateMode ==
  /\ Running
  /\ \E m \in {"chat", "qa"} :
       /\ m # mode
       /\ Become([Cur EXCEPT !.mode = m])
  /\ UNCHANGED << sweepVars, selVars, resVars, morphVars >>

\* the debounce timer fires
DebounceFires ==
  /\ \E t \in timers :
       /\ t.kind = "debounce"
       /\ Become(startShapeMorphing(
                   [Cur EXCEPT !.timers = @ \ {t},
                               !.firesSinceUpdate = @ + 1],
                   t.newShapes, t.newParams))
  /\ UNCHANGED << sweepVars, selVars, resVars, morphVars >>

\* the start-delay timer fires: no timer that is due earlier is pending
StartDelayFires ==
  /\ \E t \in timers :
       /\ t.kind = "startDelay"
       /\ \A d \in timers : ~d.early
       /\ Become(startDelayCallback([Cur EXCEPT !.timers = @ \ {t}]))
  /\ UNCHANGED << sweepVars, selVars, resVars, morphVars >>

\* a frame of the value animation: its first frame (eased progress 0) or one
\* that has reached the target values (eased progress 1)
MbtiAnimationFrame ==
  /\ mbtiAnimationProgress # Null
  /\ \E p \in {0, Den} : Become(mbtiAnimationUpdate(Cur, p))
  /\ UNCHANGED << sweepVars, selVars, resVars, morphVars >>

\* the value animation completes
MbtiAnimationComplete ==
  /\ mbtiAnimationProgress # Null
  /\ Become([Cur EXCEPT !.mbtiAnimationProgress = Null])
  /\ UNCHANGED << sweepVars, selVars, resVars, morphVars >>

\* a frame of the shape animation before its end: anime.js sets progress.value
\* and runs the update callback
AnimationFrame ==
  /\ animation # Null
  /\ \E e \in animation.elapsed..(MorphFrames - 1) :
       Become(updateMorphedShapes(
                [Cur EXCEPT !.animation = [elapsed |-> e],
                            !.progress = easeOutCubic(e)]))
  /\ UNCHANGED << sweepVars, selVars, resVars, morphVars >>

\* the last frame of the shape animation: progress.value = 1, update callback,
\* complete callback
AnimationComplete ==
  /\ animation # Null
  /\ animation.elapsed = MorphFrames - 1
  /\ Become(completeAnimation(updateMorphedShapes([Cur EXCEPT !.progress = Den])))
  /\ UNCHANGED << sweepVars, selVars, resVars, morphVars >>

Next ==
  \/ Initialize
  \/ InitializeFails
  \/ HandleMBTIChange
  \/ RandomizeMBTI
  \/ HandleChatMBTIUpdate
  \/ UpdateMode
  \/ DebounceFires
  \/ StartDelayFires
  \/ MbtiAnimationFrame
  \/ MbtiAnimationComplete
  \/ AnimationFrame
  \/ AnimationComplete

Spec == Init /\ [][Next]_vars

\* what the animation engine does to a running shape animation: it moves it
\* to a later frame (AnimationFrame) or ends it (AnimationComplete)
AnimationProgresses ==
  /\ animation # Null
  /\ animation' \in {Null} \cup {[elapsed |-> e] :
                                   e \in (animation.elapsed + 1)..(MorphFrames - 1)}

\* requestAnimationFrame keeps delivering frames: a running shape animation
\* does not stay at one frame for ever
SpecLive == Spec /\ WF_animation(AnimationProgresses)

(* ------------------- the dialogue with scores of any size ------------- *)

\* accumulated scores the dialogue delivers: components beyond 1 and below
\* -1, far beyond, and inside the range
ChatMagnitudes == { <<-3, -1, -2, -1>>, <<100, -100, 0, 1>> }

\* an answer in the dialogue, with scores of any size
HandleChatMagnitudes ==
  /\ Running
  /\ \E scores \in ChatMagnitudes : Become(handleChatMBTIUpdate(Cur, scores))
  /\ UNCHANGED << sweepVars, selVars, resVars, morphVars >>

\* the page driven by the dialogue alone
NextChat ==
  \/ Initialize
  \/ UpdateMode
  \/ HandleChatMagnitudes
  \/ DebounceFires
  \/ StartDelayFires
  \/ MbtiAnimationFrame
  \/ MbtiAnimationComplete
  \/ AnimationFrame
  \/ AnimationComplete

SpecChat == Init /\ [][NextChat]_vars

(* --------------------------- the render loop -------------------------- *)

\* p5.js calls draw() once per frame, from the construction of the page on
Draw ==
  /\ \E sample \in NoiseSamples : Become(draw(Cur, sample))
  /\ UNCHANGED << sweepVars, selVars, resVars, morphVars >>

NextDraw ==
  \/ Next
  \/ Draw

SpecDraw == Init /\ [][NextDraw]_vars

(* ------------------- the shape cache under a long sweep --------------- *)

\* the next vector of the sweep arrives
SweepUpdate ==
  /\ phase = "ready"
  /\ sweepPos < SweepLength
  /\ Become(handleMBTIChange(Cur, SweepVector(sweepPos)))
  /\ sweepPos' = sweepPos + 1
  /\ UNCHANGED << revisits, selVars, resVars, morphVars >>

\* an earlier vector of the sweep arrives again: the first, the middle one
\* or the latest
SweepRevisit ==
  /\ phase = "ready"
  /\ sweepPos > 0
  /\ revisits < MaxRevisits
  /\ \E j \in {0, sweepPos \div 2, sweepPos - 1} :
       Become(handleMBTIChange(Cur, SweepVector(j)))
  /\ revisits' = revisits + 1
  /\ UNCHANGED << sweepPos, selVars, resVars, morphVars >>

NextCache ==
  \/ Initialize
  \/ SweepUpdate
  \/ SweepRevisit

SpecCache == Init /\ [][NextCache]_vars

(* ------------------------------ resampling ---------------------------- *)

RECURSIVE Gcd(_, _)
Gcd(a, b) == IF b = 0 THEN a ELSE Gcd(b, a % b)

RECURSIVE LcmUpTo(_)
LcmUpTo(n) ==
  IF n <= 1 THEN 1 ELSE (LcmUpTo(n - 1) * n) \div Gcd(LcmUpTo(n - 1), n)

\* grid spacing: every path length on the grid is divisible by N - 1 for
\* every N up to MaxSamples, so that totalLength / (N - 1) is exact
GridUnit == LcmUpTo(MaxSamples)

GridPoints == {[x |-> a, y |-> b] : a, b \in {0, GridUnit, 2 * GridUnit}}

\* the polylines of k grid points whose segments are parallel to an axis
\* (or of length 0)
RECURSIVE PolylinesOfLength(_)
PolylinesOfLength(k) ==
  IF k = 0 THEN {<<>>}
  ELSE IF k = 1 THEN {<<p>> : p \in GridPoints}
  ELSE UNION { { Append(P, q) :
                   q \in {r \in GridPoints :
                            r.x = P[Len(P)].x \/ r.y = P[Len(P)].y} } :
               P \in PolylinesOfLength(k - 1) }

\* a polyline is handed to the resampler
ChoosePolyline ==
  /\ phase = "constructed"
  /\ rsPoints = <<>>
  /\ rsN = 0
  /\ \E k \in 0..MaxPoints : \E P \in PolylinesOfLength(k) :
       rsPoints' = P
  /\ rsN' = 0
  /\ rsOut' = <<>>
  /\ rsGen' = <<>>
  /\ UNCHANGED << progVars, sweepVars, selVars, morphVars >>

\* it is resampled to N points, by resample and by resamplePoints
Resample ==
  /\ phase = "constructed"
  /\ \E N \in 1..MaxSamples :
       /\ rsN' = N
       /\ rsOut' = resample(rsPoints, N)
       /\ rsGen' = resamplePoints(rsPoints, N)
  /\ UNCHANGED << progVars, sweepVars, selVars, morphVars, rsPoints >>

NextResample ==
  \/ ChoosePolyline
  \/ Resample

SpecResample == Init /\ [][NextResample]_vars

(* ------------------------ the Morph class, driven --------------------- *)

\* the variants given to the constructor: the heads of the library, keyed
\* by their position
MorphVariants == [k \in 1..FACES_COUNT |-> LoadedFaceSets[k].head]

\* new Morph(variants, key) with the default count and duration
MorphConstruct ==
  /\ phase = "constructed"
  /\ morph = Null
  /\ \E key \in DOMAIN MorphVariants :
       /\ morph' = MorphNew(MorphVariants, key, SAMPLE_POINTS, MorphFrames)
       /\ morphCall' = [method |-> "constructor", arg |-> key, done |-> FALSE]
  /\ UNCHANGED << progVars, sweepVars, selVars, resVars >>

MorphSetTarget ==
  /\ morph # Null
  /\ \E key \in DOMAIN MorphVariants :
       /\ morph' = setTarget(morph, key)
       /\ morphCall' = [method |-> "setTarget", arg |-> key,
                       done |-> morph.t >= morph.dur]
  /\ UNCHANGED << progVars, sweepVars, selVars, resVars >>

\* the frame loop calls update with the time since the last frame
MorphUpdate ==
  /\ morph # Null
  /\ \E dt \in 0..MaxDt :
       /\ morph' = update(morph, dt)
       /\ morphCall' = [method |-> "update", arg |-> dt,
                       done |-> morph.t >= morph.dur]
  /\ UNCHANGED << progVars, sweepVars, selVars, resVars >>

MorphCommitIfDone ==
  /\ morph # Null
  /\ morph' = commitIfDone(morph)
  /\ morphCall' = [method |-> "commitIfDone", arg |-> 0,
                  done |-> morph.t >= morph.dur]
  /\ UNCHANGED << progVars, sweepVars, selVars, resVars >>

NextMorph ==
  \/ MorphConstruct
  \/ MorphSetTarget
  \/ MorphUpdate
  \/ MorphCommitIfDone

SpecMorph == Init /\ [][NextMorph]_vars

(* ------------------- progress, of both morph engines ------------------ *)

\* A Morph instance and the application share no state, so a step of the one
\* commutes with a step of the other: the application runs while no Morph is
\* constructed, and a Morph is driven from the initial state.
ApplicationStep ==
  /\ morph = Null
  /\ Next

NextProgress ==
  \/ ApplicationStep
  \/ NextMorph

SpecProgress == Init /\ [][NextProgress]_vars

(* --------------------------- index selection -------------------------- *)

Scores == (-ScoreDen - ScoreMargin)..(ScoreDen + ScoreMargin)

\* a library of faceCount entries, the head of entry n being the point (n, n)
NumberedSets(faceCount) ==
  [ n \in 1..faceCount |->
      [ head |-> <<[x |-> n - 1, y |-> n - 1]>>, left_eye |-> <<>>,
        right_eye |-> <<>>, mouth |-> <<>> ] ]

\* the index selected for a score by both copies of getShapeIndices, and the
\* head getFeatureFromScore fetches for it from the numbered library
SelectBoth(score, faceCount) ==
  [ app |-> AppStateGetShapeIndices([head |-> score], faceCount).head,
    gen |-> FaceGeneratorGetShapeIndices([head |-> score], faceCount).head,
    fetched |-> getFeatureFromScore(NumberedSets(faceCount), score, "head",
                                    faceCount) ]

SelectLibrary ==
  /\ phase = "constructed"
  /\ selIndex = Null
  /\ \E k \in 1..MaxFaceCount, score \in Scores :
       /\ selCount' = k
       /\ selScore' = score
       /\ selIndex' = SelectBoth(score, k)
  /\ UNCHANGED << progVars, sweepVars, resVars, morphVars >>

SelectScore ==
  /\ selIndex # Null
  /\ \E score \in Scores :
       /\ selScore' = score
       /\ selIndex' = SelectBoth(score, selCount)
  /\ UNCHANGED << progVars, sweepVars, resVars, morphVars, selCount >>

NextSelect ==
  \/ SelectLibrary
  \/ SelectScore

SpecSelect == Init /\ [][NextSelect]_vars

(* ------------------------------- claims ------------------------------- *)

\* the animator's state
AnimatorState ==
  << state, currentShapes, targetShapes, morphedShapes, animation, progress,
     onCompleteCallback >>

DebounceTimers == {t \in timers : t.kind = "debounce"}

\* the step is the callback of the debounce timer t
Fired(t) ==
  /\ t \in DebounceTimers
  /\ t \notin timers'
  /\ firesSinceUpdate' = firesSinceUpdate + 1

\* the shapes generateCurrentFaceShapes returned to the last vector update
ShapesOfLastUpdate == CacheGet(shapeCache, JSONStringify(lastUpdateIndices))

\* the step starts a new animation
StartsAnimation == state = "idle" /\ state' = "morphing"

\* the step gives the running animation another target
Retargets ==
  state = "morphing" /\ state' = "morphing" /\ targetShapes' # targetShapes

\* C1: startShapeMorphing never starts a new animation whose target is the
\* shape set that is displayed at rest (and, a morph being in flight, never
\* starts one at all).
C1_NoRedundantStart ==
  [][ /\ StartsAnimation => targetShapes' # getCurrentShapes(Cur)
      /\ state = "morphing" => startsSinceUpdate' <= startsSinceUpdate ]_vars

\* C2: when the update before the last one selected the same index set and
\* its debounce callback has run, the debounce callback of the last update
\* leaves the animator's state unchanged.
C2_SameIndicesNoChange ==
  [][ \A t \in timers : (Fired(t) /\ twoSame) => UNCHANGED AnimatorState ]_vars

\* C3: a step that retargets a morph in flight leaves the displayed shapes as
\* they are, makes them the start of the morph and restarts progress from 0.
C3_RetargetFromDisplayed ==
  [][ Retargets =>
        /\ morphedShapes' = morphedShapes
        /\ currentShapes' = morphedShapes
        /\ progress' = 0 ]_vars

\* C4: the debounce callback of an update that runs while a morph is in
\* flight leaves the animator unchanged if the update's shapes are the
\* in-flight target, and otherwise makes them the in-flight target.
C4_MidMorphUpdate ==
  [][ \A t \in timers :
        (Fired(t) /\ state = "morphing") =>
          IF t.newShapes = targetShapes
          THEN UNCHANGED AnimatorState
          ELSE state' = "morphing" /\ targetShapes' = t.newShapes ]_vars

\* the debounce path has run its callback exactly once since the last update,
\* unless its timer is still pending
C5_ExactlyOnce ==
  phase = "ready" =>
    \/ DebounceTimers # {} /\ firesSinceUpdate = 0
    \/ DebounceTimers = {} /\ firesSinceUpdate = 1

C5_Pending ==
  phase = "ready" =>
    /\ Cardinality(DebounceTimers) <= 1
    /\ \A t \in DebounceTimers :
         /\ t.id = morphTimeout
         /\ t.newShapes = ShapesOfLastUpdate
         /\ t.newParams = faceParams
         /\ firesSinceUpdate = 0
    /\ DebounceTimers = {} =>
         \/ firesSinceUpdate = 1 /\ morphTimeout \in {Stale, 0}
         \/ firesSinceUpdate = 0 /\ morphTimeout = 0 /\ morphStartTimeout = 0

C5_Callback ==
  \A t \in timers :
    Fired(t) =>
      /\ t.newShapes = ShapesOfLastUpdate
      /\ t.newParams = faceParams
      /\ \/ UNCHANGED AnimatorState
         \/ state' = "morphing" /\ targetShapes' = t.newShapes

C5_StartDelayCancels ==
  (DebounceTimers # {} /\ DebounceTimers' = {} /\ firesSinceUpdate' = 0) =>
    /\ \E t \in timers : t.kind = "startDelay" /\ t \notin timers'
    /\ \/ currentShapeIndices = lastUpdateIndices /\ UNCHANGED AnimatorState
       \/ state' = "morphing" /\ targetShapes' = ShapesOfLastUpdate

\* C5: at most one debounce timer is pending, it carries the shapes and the
\* parameters of the last update, and no debounce callback has run since
\* that update; when it fires, startShapeMorphing is invoked with that
\* payload, and then the callback has run exactly once since the update.
\* The one other way the timer stops being pending is the start-delay
\* callback, which cancels it and itself invokes startShapeMorphing with the
\* last update's shapes and parameters.
C5_DebounceLastOnly ==
  []C5_Pending /\ [][C5_Callback /\ C5_StartDelayCancels]_vars

\* two updates landed in one window and the debounce callback has run once,
\* starting a morph to the shapes of the second
C5_Witness ==
  /\ supersededSame
  /\ firesSinceUpdate = 1
  /\ DebounceTimers = {}
  /\ state = "morphing"
  /\ startsSinceUpdate = 1

C6_Fire ==
  \A t \in timers :
    ( /\ Fired(t)
      /\ supersededSame
      /\ state = "idle"
      /\ lastUpdateIndices # currentShapeIndices )
    => /\ StartsAnimation
       /\ t.newShapes = ShapesOfLastUpdate
       /\ targetShapes' = t.newShapes
       /\ onCompleteCallback' = [newIndices |-> lastUpdateIndices]
       /\ startsSinceUpdate' = 1

\* C6: with the animator idle, when an update selecting the committed index
\* set is superseded within its debounce window by an update selecting
\* another one, the debounce callback starts a morph to the shapes of the
\* second update, and no update ever causes more than one morph start.
C6_BurstStartsOnce ==
  [](startsSinceUpdate <= 1) /\ [][C6_Fire]_vars

\* the morph to the second update's shapes, started from idle, in flight at
\* its first frame
C6_Witness ==
  /\ supersededSame
  /\ firesSinceUpdate = 1
  /\ startsSinceUpdate = 1
  /\ state = "morphing"
  /\ progress = 0
  /\ targetShapes = ShapesOfLastUpdate
  /\ onCompleteCallback = [newIndices |-> lastUpdateIndices]
  /\ lastUpdateIndices # currentShapeIndices

\* the animator has committed the morph it was given
Committed ==
  /\ state = "idle"
  /\ animation = Null
  /\ progress = Den
  /\ currentShapes = targetShapes
  /\ morphedShapes = targetShapes
  /\ onCompleteCallback # Null
  /\ currentShapeIndices = onCompleteCallback.newIndices

\* C7: every morph that has started is eventually committed: the animator is
\* idle with progress 1, its current shapes are the target and the completion
\* callback has assigned the committed index set, whatever updates arrive
\* while the morph is in flight.
C7_MorphCommits == (state = "morphing") ~> Committed

\* a morph that was retargeted in flight has been committed
C7_Witness ==
  /\ Committed
  /\ targetShapes # CacheGet(shapeCache, JSONStringify(currentShapeIndices))

\* C8: the shape cache never holds more than 50 entries.
C8_CacheBounded == Len(shapeCache) <= CACHE_LIMIT

\* more than 50 distinct index sets have been stored and the cache is full
C8_Witness ==
  /\ inserts > CACHE_LIMIT
  /\ Len(shapeCache) = CACHE_LIMIT

\* the step is a vector update that missed the cache
CacheMiss == inserts' = inserts + 1

\* the step is a vector update that hit the cache
CacheHit ==
  /\ inserts' = inserts
  /\ phase = "ready"
  /\ sweepVars' # sweepVars

LastKey == JSONStringify(lastUpdateIndices)

C9_Step ==
  /\ CacheMiss =>
       /\ LastKey' \notin CacheKeys(shapeCache)
       /\ LET entry == shapeCache'[Len(shapeCache')] IN
            /\ entry.key = LastKey'
            /\ \A t \in DebounceTimers' : t.newShapes = entry.value
            /\ shapeCache' = IF Len(shapeCache) < CACHE_LIMIT
                              THEN Append(shapeCache, entry)
                              ELSE Append(Tail(shapeCache), entry)
  /\ CacheHit =>
       /\ LastKey' \in CacheKeys(shapeCache)
       /\ shapeCache' = shapeCache
       /\ \A t \in DebounceTimers' :
            t.newShapes = CacheGet(shapeCache, LastKey')

\* C9: a miss appends the new entry and, if the cache was full, deletes
\* exactly the oldest-inserted entry and no other; a hit returns the stored
\* value and changes neither the contents nor the order of the cache.
C9_CacheFifo == [][C9_Step]_vars

\* entries have been evicted and an earlier vector has arrived again
C9_Witness ==
  /\ inserts > CACHE_LIMIT + 1
  /\ revisits > 0
  /\ Len(shapeCache) = CACHE_LIMIT

C10_SelectionEnds ==
  selIndex # Null =>
    /\ selScore = -ScoreDen => (selIndex.app = 0 /\ selIndex.gen = 0)
    /\ selScore = ScoreDen =>
         (selIndex.app = selCount - 1 /\ selIndex.gen = selCount - 1)

C10_SelectionStep ==
  ( /\ selIndex # Null
    /\ selIndex' # Null
    /\ selCount' = selCount
    /\ -ScoreDen <= selScore
    /\ selScore <= selScore'
    /\ selScore' <= ScoreDen )
  => (selIndex.app <= selIndex'.app /\ selIndex.gen <= selIndex'.gen)

\* C10: for every fixed library size k >= 1 the selected index does not
\* decrease when the score increases within [-1, 1]; it is 0 at score -1 and
\* k - 1 at score 1 (for both copies of the selection code).
C10_SelectionMonotone == []C10_SelectionEnds /\ [][C10_SelectionStep]_vars

\* a six-entry library at score 1 selects the last entry, after a step from
\* a lower score
C10_Witness ==
  /\ selIndex # Null
  /\ selCount = 6
  /\ selScore = ScoreDen
  /\ selIndex.app = 5

\* the index set selected for the vector, the key under which its shapes are
\* cached, and the library polylines the cached shapes consist of
SelectsFor(v, head, eye, mouth) ==
  (phase = "ready" /\ mbti = v) =>
    /\ lastUpdateIndices = [head |-> head, eye |-> eye, mouth |-> mouth]
    /\ lastShapeIndices \in {Null, lastUpdateIndices}
    /\ <<head, eye, mouth>> \in CacheKeys(shapeCache)
    /\ CacheGet(shapeCache, <<head, eye, mouth>>) =
         [ head      |-> faceSets[head + 1].head,
           left_eye  |-> faceSets[eye + 1].left_eye,
           right_eye |-> faceSets[eye + 1].right_eye,
           mouth     |-> faceSets[mouth + 1].mouth ]

\* C11 as stated: with the configured weights and the six-entry library the
\* vector [-1,-1,-1,-1] selects index 0 for head, eye and mouth, each score
\* clamping to -1.
C11_AllFirst ==
  (phase = "ready" /\ mbti = <<-1, -1, -1, -1>>) =>
    /\ \A f \in {"head", "eye", "mouth"} :
         Max(-ScoreDen, Min(ScoreDen, faceParams[f])) = -ScoreDen
    /\ lastUpdateIndices = [head |-> 0, eye |-> 0, mouth |-> 0]

\* C11 (amended): with the configured weights and the six-entry library the
\* vector [-1,-1,-1,-1] gives the scores head -1, eye 0 and mouth 1 and
\* selects index 0 for the head, 3 for the eyes and 5 for the mouth.
C11_AllMinusOne ==
  /\ Len(LoadedFaceSets) = FACES_COUNT
  /\ (phase = "ready" /\ mbti = <<-1, -1, -1, -1>>) =>
       /\ faceParams.head = -ScoreDen
       /\ faceParams.eye = 0
       /\ faceParams.mouth = ScoreDen
  /\ SelectsFor(<<-1, -1, -1, -1>>, 0, 3, 5)

C11_Witness ==
  /\ phase = "ready"
  /\ mbti = <<-1, -1, -1, -1>>
  /\ lastShapeIndices = [head |-> 0, eye |-> 3, mouth |-> 5]
  /\ <<0, 3, 5>> \in CacheKeys(shapeCache)

\* the score of a feature for the all-ones vector
WeightSum(feature) ==
  LET weights == FEATURE_WEIGHTS[feature] IN
    Weight(weights, "e_i") + Weight(weights, "s_n")
  + Weight(weights, "t_f") + Weight(weights, "j_p")

\* C12: with the configured weights and the six-entry library the vector
\* [1,1,1,1] selects the last index, 5, for every feature whose weights sum
\* to a positive number, and index 3 for the eyes, whose score is 0.
C12_AllOnes ==
  /\ WeightSum("eye") = 0
  /\ (phase = "ready" /\ mbti = <<1, 1, 1, 1>>) =>
       /\ \A f \in {"head", "eye", "mouth"} :
            WeightSum(f) > 0 => lastUpdateIndices[f] = FACES_COUNT - 1
       /\ faceParams.eye = 0
       /\ lastUpdateIndices.eye = 3
  /\ SelectsFor(<<1, 1, 1, 1>>, FACES_COUNT - 1, 3, 0)

C12_Witness ==
  /\ phase = "ready"
  /\ mbti = <<1, 1, 1, 1>>
  /\ WeightSum("head") > 0
  /\ lastShapeIndices = [head |-> 5, eye |-> 3, mouth |-> 0]
  /\ currentShapes = CacheGet(shapeCache, <<5, 3, 0>>)

\* the step is a frame of the running shape animation: anime.js sets the
\* progress and the update callback recomputes the displayed shapes
FrameStep ==
  /\ state = "morphing"
  /\ state' = "morphing"
  /\ animation # Null
  /\ animation' # Null
  /\ progress' = easeOutCubic(animation'.elapsed)
  /\ UNCHANGED << mbti, faceParams, isDataLoaded, faceSets, shapeCache,
                  lastShapeIndices, mode, currentShapes, targetShapes,
                  onCompleteCallback, morphTimeout, morphStartTimeout,
                  currentShapeIndices, mbtiAnimationProgress, timers, phase,
                  lastUpdateIndices, twoSame, supersededSame,
                  startsSinceUpdate, firesSinceUpdate, chatStarts, inserts >>

\* the two point sequences the frame interpolates for a feature
InterpolatedPair(feature) ==
  LET c == FeatureOf(currentShapes, feature)
      t == FeatureOf(targetShapes, feature)
  IN  IF Len(c) = Len(t) THEN <<c, t>>
      ELSE <<resample(c, SAMPLE_POINTS), resample(t, SAMPLE_POINTS)>>

\* the feature is interpolated at the frame: both polylines are non-empty
\* and the progress is strictly between 0 and 1
Interpolated(feature) ==
  /\ Len(FeatureOf(currentShapes, feature)) > 0
  /\ Len(FeatureOf(targetShapes, feature)) > 0
  /\ 0 < progress
  /\ progress < Den

\* C13 as stated: at every frame of a morph the polyline emitted for a
\* feature has n = max(len(current), len(target)) points, both polylines
\* having been resampled to n.
C13_Step ==
  FrameStep =>
    \A f \in {"head", "left_eye", "right_eye", "mouth"} :
      Len(morphedShapes'[f]) =
        Max(Len(FeatureOf(currentShapes, f)), Len(FeatureOf(targetShapes, f)))

C13_SampleStep ==
  FrameStep =>
    \A f \in {"head", "left_eye", "right_eye", "mouth"} :
      Interpolated(f)' =>
        \A pair \in {InterpolatedPair(f)} :
          \A n \in {IF Len(FeatureOf(currentShapes, f)) =
                       Len(FeatureOf(targetShapes, f))
                    THEN Len(FeatureOf(currentShapes, f))
                    ELSE SAMPLE_POINTS} :
            /\ Len(pair[1]) = n
            /\ Len(pair[2]) = n
            /\ morphedShapes'[f] =
                 [i \in 1..n |-> lerpPt(pair[1][i], pair[2][i], progress')]

Settled ==
  /\ state = "idle"
  /\ progress = Den
  /\ animation = Null
  /\ currentShapes # Null

\* the step hands the settled animator a target whose content equals the
\* shapes it shows
SetsEqualTarget ==
  /\ Settled
  /\ targetShapes' = currentShapes
  /\ \/ \E t \in timers : t \notin timers'
     \/ targetShapes' # targetShapes

C14_Step ==
  SetsEqualTarget =>
    /\ progress' = Den
    /\ state' = "idle"
    /\ animation' = Null
    /\ startsSinceUpdate' = startsSinceUpdate

\* C14: setting a target whose content equals the current shapes while the
\* animator is settled is a no-op: the progress stays 1, the state stays
\* settled and no animation is started.
C14_EqualTargetNoop == [][C14_Step]_vars

\* the shapes the renderer is given
Displayed == getCurrentShapes(Cur)

WellFormed(points) ==
  \A i \in 1..Len(points) :
    /\ DOMAIN points[i] = {"x", "y"}
    /\ points[i].x \in Int
    /\ points[i].y \in Int

\* the frame's output for a feature one of whose polylines is empty
C16_FrameStep ==
  FrameStep =>
    \A f \in {"head", "left_eye", "right_eye", "mouth"} :
      \A c \in {FeatureOf(currentShapes, f)}, t \in {FeatureOf(targetShapes, f)} :
        (Len(c) = 0 \/ Len(t) = 0) =>
          /\ morphedShapes'[f] = IF Len(c) = 0 THEN t ELSE c
          /\ WellFormed(morphedShapes'[f])

\* the output of the step that completes a morph
C16_CompleteStep ==
  (state = "morphing" /\ state' = "idle") =>
    \A f \in {"head", "left_eye", "right_eye", "mouth"} :
      /\ progress' = Den
      /\ currentShapes'[f] = targetShapes'[f]
      /\ morphedShapes'[f] = targetShapes'[f]
      /\ WellFormed(morphedShapes'[f])

C17_LoadFailure ==
  /\ phase = "failed" =>
       /\ ~isDataLoaded
       /\ DebounceTimers = {}
       /\ morphTimeout = 0
       /\ state = "idle"
       /\ animation = Null
       /\ progress = Den
       /\ currentShapes = Null
       /\ targetShapes = Null
       /\ morphedShapes = Null
       /\ onCompleteCallback = Null
       /\ startsSinceUpdate = 0
       /\ shapeCache = <<>>
  /\ ~isDataLoaded => canvas = "untouched"

\* after a failed load, a dialogue update in Q&A mode has set the vector and
\* its start-delay callback has run
C17_Witness ==
  /\ phase = "failed"
  /\ mode = "qa"
  /\ mbti = <<1, 1, 1, 1>>
  /\ faceParams # Null
  /\ mbtiAnimationProgress # Null
  /\ timers = {}

\* C18: for every score, also outside [-1, 1], and every library size k >= 1
\* the selection yields an integer index in 0..k-1 (in both copies of the
\* selection code), and the polyline fetched for the score is the one at
\* that position of the library.
C18_IndexInRange ==
  selIndex # Null =>
    /\ selCount >= 1
    /\ selIndex.app \in 0..(selCount - 1)
    /\ selIndex.gen \in 0..(selCount - 1)
    /\ selIndex.fetched = <<[x |-> selIndex.app, y |-> selIndex.app]>>

\* a score below -1 with the six-entry library, after a score above 1
C18_Witness ==
  /\ selIndex # Null
  /\ selCount = 6
  /\ selScore < -ScoreDen
  /\ selIndex.app = 0
  /\ selIndex.fetched = <<[x |-> 0, y |-> 0]>>

\* C19: for every non-empty polyline and every n >= 1, resample (and
\* FaceGenerator.resamplePoints, which delegates to it) ends within
\* 2n + len(points) passes of its loop and returns exactly n points.
C19_ExactCount ==
  (rsN > 0 /\ Len(rsPoints) > 0) =>
    /\ Len(rsOut) = rsN
    /\ Len(rsGen) = rsN

\* a three-point path of positive length resampled to more points than it has
C19_Witness ==
  /\ rsN > 0
  /\ Len(rsPoints) = 3
  /\ PathLength(rsPoints, 2) > 0
  /\ rsN = MaxSamples
  /\ Len(rsOut) = MaxSamples

C21_Degenerate ==
  rsN > 0 =>
    /\ Len(rsPoints) = 0 => (rsOut = <<>> /\ rsGen = <<>>)
    /\ (Len(rsPoints) > 0 /\ PathLength(rsPoints, 2) = 0) =>
         /\ rsOut = [k \in 1..rsN |-> rsPoints[1]]
         /\ rsGen = [k \in 1..rsN |-> rsPoints[1]]

\* two coincident points resampled to more points than the input has
C21_Witness ==
  /\ rsN = MaxSamples
  /\ Len(rsPoints) = 2
  /\ rsPoints[1] = rsPoints[2]
  /\ Len(rsOut) = MaxSamples
  /\ \A k \in 1..MaxSamples : rsOut[k] = rsPoints[1]

\* the step is a call of Morph.update
UpdateCall ==
  /\ morph # Null
  /\ morph' # morph \/ morphCall' # morphCall
  /\ morphCall'.method = "update"

C22_Step ==
  (UpdateCall /\ morph.t >= morph.dur) =>
    /\ morph'.t = morph.dur
    /\ MorphPoints(morph') = MorphPoints(morph)
    /\ MorphPoints(morph') = morph.target

\* C22: once the progress has reached 1, every further update call, with any
\* dt, leaves the progress at 1 and the points displayed unchanged.
C22_SettledIdempotent == [][C22_Step]_vars

\* an update with a positive dt, called after the progress had reached 1 on
\* the way to another variant and before the morph was committed
C22_Witness ==
  /\ morph # Null
  /\ morphCall.method = "update"
  /\ morphCall.done
  /\ morphCall.arg > 0
  /\ morph.t = morph.dur
  /\ morph.curr # morph.target

\* the step is the callback of the start-delay timer t
StartDelayFired(t) ==
  /\ t \in timers
  /\ t.kind = "startDelay"
  /\ t \notin timers'

\* startShapeMorphing, invoked with these parameters, finds their index set
\* equal to the committed one
SameAsCommitted(params) ==
  /\ currentShapeIndices # Null
  /\ FaceGeneratorGetShapeIndices(params, Len(faceSets)) = currentShapeIndices

C23_Step ==
  \A t \in timers :
    /\ (Fired(t) /\ SameAsCommitted(t.newParams)) =>
         UNCHANGED << AnimatorState, currentShapeIndices >>
    /\ (StartDelayFired(t) /\ isDataLoaded /\ SameAsCommitted(faceParams)) =>
         UNCHANGED << AnimatorState, currentShapeIndices >>

\* C23: whenever startShapeMorphing is invoked (by the debounce callback or
\* by the start-delay callback) with parameters whose index set equals the
\* committed index set, the animator's state, progress, current, target and
\* displayed shapes, animation and completion callback, and the committed
\* index set, are all unchanged.
C23_GuardDiscards == [][C23_Step]_vars

\* the debounce callback of the last update has run, with the committed
\* index set, and nothing was started
C23_Witness ==
  /\ phase = "ready"
  /\ DebounceTimers = {}
  /\ firesSinceUpdate = 1
  /\ startsSinceUpdate = 0
  /\ lastUpdateIndices = currentShapeIndices
  /\ mbti # DEFAULT_VALUES
  /\ state = "idle"

\* the shapes an index set selects from the library
ShapesOfIndices(indices) ==
  [ head      |-> faceSets[indices.head + 1].head,
    left_eye  |-> faceSets[indices.eye + 1].left_eye,
    right_eye |-> faceSets[indices.eye + 1].right_eye,
    mouth     |-> faceSets[indices.mouth + 1].mouth ]

\* C24: whenever the animator is idle after a morph has completed, the
\* committed index set is the index set of the shapes the animator displays,
\* also when the target was replaced while the morph was in progress.
C24_CommittedIsDisplayed ==
  (phase = "ready" /\ state = "idle" /\ onCompleteCallback # Null) =>
    /\ currentShapeIndices # Null
    /\ Displayed = ShapesOfIndices(currentShapeIndices)

\* nothing is left to run: no timer is pending, no shape animation and no
\* value animation is running
Quiescent ==
  /\ phase = "ready"
  /\ timers = {}
  /\ state = "idle"
  /\ animation = Null
  /\ mbtiAnimationProgress = Null

\* C25: if vector updates stop arriving, then once every pending timer has
\* fired and the running animation has completed, the shapes returned by
\* getCurrentShapes are the shapes selected by the index set of the last
\* vector update.
C25_DisplaysLastUpdate ==
  Quiescent => Displayed = ShapesOfIndices(lastUpdateIndices)

C26_AtMostOne ==
  /\ Cardinality(DebounceTimers) <= 1
  /\ \A t \in DebounceTimers : t.id = morphTimeout

\* a debounce callback that runs is the one of the only pending debounce
\* timer, which was armed by the last vector update and has not run before
C26_OnlyLatestRuns ==
  \A t \in timers :
    Fired(t) =>
      /\ DebounceTimers = {t}
      /\ t.id = morphTimeout
      /\ t.newParams = faceParams
      /\ firesSinceUpdate = 0

\* C26: at every moment at most one debounce timer is pending, the one whose
\* handle morphTimeout holds: a vector update received while a debounce timer
\* is pending cancels that timer before it arms a new one, so the only
\* debounce callback that ever runs is that of the last update's timer.
C26_OneDebounceTimer == []C26_AtMostOne /\ [][C26_OnlyLatestRuns]_vars

\* a vector update has arrived while the debounce timer of the update before
\* it was pending, and one debounce timer is pending
C26_Witness ==
  /\ supersededSame
  /\ Cardinality(DebounceTimers) = 1
  /\ firesSinceUpdate = 0
  /\ \A t \in DebounceTimers : t.newParams = faceParams

C27_InRange ==
  /\ 0 <= progress /\ progress <= Den
  /\ morph # Null => (0 <= morph.t /\ morph.t <= morph.dur)

\* Morph: update(dt) sets t to min(1, t + dt / dur); t decreases only in
\* setTarget, which sets it to 0
C27_MorphStep ==
  /\ UpdateCall => morph'.t = Min(morph.dur, morph.t + morphCall'.arg)
  /\ (morph # Null /\ morph'.t < morph.t) =>
       /\ morphCall'.method = "setTarget"
       /\ morph'.t = 0
       /\ morph'.target = resample(MorphVariants[morphCall'.arg], SAMPLE_POINTS)

\* AnimationController: the progress does not decrease while a morph is in
\* flight, is 1 when it ends, and decreases only to 0, in a step in which a
\* timer callback hands the idle animator a target and an animation starts
C27_AnimatorStep ==
  /\ (state = "morphing" /\ state' = "morphing") =>
       /\ progress' >= progress
       /\ animation'.elapsed >= animation.elapsed
  /\ (state = "morphing" /\ state' = "idle") => progress' = Den
  /\ progress' < progress =>
       /\ StartsAnimation
       /\ progress' = 0
       /\ \E t \in timers : t \notin timers' /\ targetShapes' # Null
       /\ startsSinceUpdate' = startsSinceUpdate + 1

\* C27: the progress is always within [0, 1]; advancing by any dt >= 0 sets
\* it to min(1, progress + dt / duration); within a single morph it never
\* decreases, and it returns to 0 only when a target is set (setTarget, or
\* morphTo on the idle animator).
C27_ProgressLaw == []C27_InRange /\ [][C27_MorphStep /\ C27_AnimatorStep]_vars

\* an update whose dt exceeds what is left of the duration has taken the
\* progress of a morph in flight to exactly 1
C27_Witness ==
  /\ morph # Null
  /\ morphCall.method = "update"
  /\ ~morphCall.done
  /\ morphCall.arg > morph.dur
  /\ morph.t = morph.dur
  /\ morph.curr # morph.target

StartDelayTimers == {t \in timers : t.kind = "startDelay"}

C28_AtMostOne ==
  /\ Cardinality(StartDelayTimers) <= 1
  /\ \A t \in StartDelayTimers : t.id = morphStartTimeout

\* the callback of the start-delay timer: no debounce timer is pending after
\* it, both handles are null, and startShapeMorphing was invoked with the
\* parameters and the shapes of the vector stored when the timer fired
C28_Fire ==
  \A t \in timers :
    StartDelayFired(t) =>
      /\ DebounceTimers' = {}
      /\ morphTimeout' = 0
      /\ morphStartTimeout' = 0
      /\ isDataLoaded =>
           /\ faceParams = calculateFaceParameters(mbti)
           /\ \/ SameAsCommitted(faceParams) /\ UNCHANGED AnimatorState
              \/ /\ ~SameAsCommitted(faceParams)
                 /\ state' = "morphing"
                 /\ targetShapes' =
                      ShapesOfIndices(AppStateGetShapeIndices(
                        calculateFaceParameters(mbti), Len(faceSets)))

\* a dialogue update in Q&A mode that found the animator idle and selected
\* another index set than the committed one has started no more than one
\* animation, and exactly one once nothing is left to run
C28_OneStart ==
  /\ chatStarts <= 1
  /\ (Quiescent /\ chatStarts >= 0) => chatStarts = 1

Rendered(s) ==
  << s.currentShapes, s.targetShapes, s.morphedShapes, getCurrentShapes(s),
     s.shapeCache, s.currentShapeIndices, s.lastShapeIndices, s.state,
     s.progress >>

IndexFeatures == {"head", "eye", "mouth"}

\* every index set holds the three features and nothing else, and a cache
\* entry is keyed by the three indices and holds the shapes they select
C29_IndexSets ==
  phase = "ready" =>
    /\ DOMAIN lastUpdateIndices = IndexFeatures
    /\ DOMAIN currentShapeIndices = IndexFeatures
    /\ lastShapeIndices # Null => DOMAIN lastShapeIndices = IndexFeatures
    /\ onCompleteCallback # Null =>
         DOMAIN onCompleteCallback.newIndices = IndexFeatures
    /\ Cardinality(CacheKeys(shapeCache)) = Len(shapeCache)
    /\ \A i \in 1..Len(shapeCache) :
         \A key \in {shapeCache[i].key} :
           /\ Len(key) = 3
           /\ shapeCache[i].value =
                ShapesOfIndices([head |-> key[1], eye |-> key[2],
                                 mouth |-> key[3]])

\* C29: rendering a frame, with any noise sample and whatever the movement
\* score, leaves the animator's current, target and displayed shapes, the
\* shape cache and the committed index set unchanged; and an index set
\* holds head, eye and mouth only, so that the movement score takes no part
\* in the change guard or in the cache keys.
C29_RenderLeavesShapes ==
  /\ \A sample \in NoiseSamples : Rendered(draw(Cur, sample)) = Rendered(Cur)
  /\ C29_IndexSets

\* a frame has been drawn after an update that changed the movement score
\* and nothing else: no cache entry was added and the guard discarded it
C29_Witness ==
  /\ phase = "ready"
  /\ canvas = "face"
  /\ mbti = <<1, 1, -1, 1>>
  /\ faceParams.movement # 0
  /\ lastUpdateIndices = currentShapeIndices
  /\ Len(shapeCache) = 1
  /\ firesSinceUpdate = 1
  /\ startsSinceUpdate = 0

C31_IndexAgreement ==
  phase = "ready" =>
    LET faceCount == Len(faceSets)
        key == AppStateGetShapeIndices(faceParams, faceCount)
    IN  /\ key = FaceGeneratorGetShapeIndices(faceParams, faceCount)
        /\ \A feature \in {"head", "left_eye", "right_eye", "mouth"} :
             getFeatureFromScore(faceSets,
               Param(faceParams, IF feature = "head" THEN "head"
                                 ELSE IF feature = "mouth" THEN "mouth"
                                 ELSE "eye"),
               feature, faceCount) = ShapesOfIndices(key)[feature]
        /\ generateCurrentFaceShapes(Cur).shapes = ShapesOfIndices(key)
        /\ \A t \in DebounceTimers :
             t.newShapes =
               ShapesOfIndices(FaceGeneratorGetShapeIndices(t.newParams, faceCount))

\* a morph completes: the shapes the animator was last handed are its target,
\* and they are the shapes of the index set the completion records
C31_CommitStep ==
  (state = "morphing" /\ state' = "idle") =>
    /\ currentShapeIndices' # Null
    /\ targetShapes = (ShapesOfIndices(currentShapeIndices))'

\* C31: the index set used as the cache key, the index used to fetch each
\* feature's polyline and the index set used by the change guard agree for
\* the same parameters and library size; the shapes generateCurrentFaceShapes
\* returns, cached or not, are the library polylines at these indices; and the
\* shapes handed to the animator match the index set recorded on commit.
C31_ShapesMatchCommit == []C31_IndexAgreement /\ [][C31_CommitStep]_vars

\* the position of a dimension in the vector
DimensionIndex(dim) == CHOOSE i \in 1..Len(DIMENSIONS) : DIMENSIONS[i] = dim

RECURSIVE WeightedSum(_, _, _)
\* the sum of weight times component over the dimensions dims
WeightedSum(dims, weights, v) ==
  IF dims = {} THEN 0
  ELSE LET dim == CHOOSE d \in dims : TRUE
       IN  weights[dim] * v[DimensionIndex(dim)]
           + WeightedSum(dims \ {dim}, weights, v)

\* the vectors with components -1, 0 and 1
UnitVectors == {SweepVector(n) : n \in 0..80}

\* w differs from v at most in dimensions without a weight for the feature
AgreeOnWeighted(v, w, feature) ==
  \A dim \in DOMAIN FEATURE_WEIGHTS[feature] :
    v[DimensionIndex(dim)] = w[DimensionIndex(dim)]

AbsWeightSum(feature) ==
  LET weights == FEATURE_WEIGHTS[feature] IN
    Abs(Weight(weights, "e_i")) + Abs(Weight(weights, "s_n"))
  + Abs(Weight(weights, "t_f")) + Abs(Weight(weights, "j_p"))

\* the clamp of index selection leaves the score as it is
ClampKeeps(score) == Max(-ScoreDen, Min(ScoreDen, score)) = score

InUnitRange(v) == \A i \in 1..Len(v) : v[i] >= -1 /\ v[i] <= 1

\* C34: after handleChatMBTIUpdate with accumulated scores of any magnitude,
\* every component of the vector stored in AppState lies in [-1,1]; in Q&A
\* mode this also holds for every value the subsequent value animation writes
\* (at any progress), the dialogue being the only source of updates.
C34_ChatInRange ==
  /\ InUnitRange(mbti)
  /\ mbtiAnimationProgress # Null =>
       /\ \A p \in 0..Den : InUnitRange(mbtiAnimationUpdate(Cur, p).mbti)

\* a dialogue update with the scores <<100, -100, 0, 1>> in Q&A mode, whose
\* timers have fired and whose value animation is still running
C34_Witness ==
  /\ phase = "ready"
  /\ mode = "qa"
  /\ mbtiAnimationProgress # Null
  /\ mbtiAnimationProgress.targetValues = <<1, -1, 0, 1>>
  /\ mbti = <<1, -1, 0, 1>>
  /\ timers = {}

\* the step is an input of the user or of the dialogue
ExternalInput ==
  \/ HandleMBTIChange
  \/ RandomizeMBTI
  \/ HandleChatMBTIUpdate
  \/ UpdateMode

\* initialize has succeeded and no vector has arrived since: no input
\* delivers the default vector again
NoVectorSinceInitialize == phase = "ready" /\ mbti = DEFAULT_VALUES

\* the index set of the default vector, and the shapes it selects
InitialIndices ==
  FaceGeneratorGetShapeIndices(calculateFaceParameters(DEFAULT_VALUES),
                               Len(faceSets))

\* with no vector received, the animator is idle on the initial shapes, the
\* initial index set is the recorded one, and the only timer there can be is
\* the debounce timer armed by the initial updateMBTI
C35_Idle ==
  NoVectorSinceInitialize =>
    /\ state = "idle"
    /\ animation = Null
    /\ targetShapes = Null
    /\ progress = Den
    /\ currentShapeIndices = InitialIndices
    /\ currentShapes = ShapesOfIndices(InitialIndices)
    /\ Displayed = ShapesOfIndices(InitialIndices)
    /\ Cardinality(timers) <= 1
    /\ \A t \in timers :
         /\ t.kind = "debounce"
         /\ t.newShapes = ShapesOfIndices(InitialIndices)
         /\ FaceGeneratorGetShapeIndices(t.newParams, Len(faceSets))
              = InitialIndices

\* without an input, the only step is the callback of that timer, and it
\* changes nothing of the animator
C35_Step ==
  (NoVectorSinceInitialize /\ ~ExternalInput) =>
    /\ \E t \in timers : Fired(t)
    /\ timers' = {}
    /\ NoVectorSinceInitialize'
    /\ AnimatorState' = AnimatorState
    /\ currentShapeIndices' = currentShapeIndices
    /\ startsSinceUpdate' = 0

\* C35: after initialize has succeeded and with no further input the animator
\* never leaves idle: the debounce timer armed by the initial updateMBTI fires
\* into the change guard, which finds the recorded initial index set equal
\* and starts no morph, and the displayed shapes stay the initial shapes.
C35_StaysIdle == []C35_Idle /\ [][C35_Step]_vars

\* the initial debounce timer has fired, no input has arrived, and the
\* animator is idle on the initial shapes
C35_Witness ==
  /\ NoVectorSinceInitialize
  /\ mode = "chat"
  /\ timers = {}
  /\ firesSinceUpdate = 1
  /\ startsSinceUpdate = 0
  /\ state = "idle"
  /\ onCompleteCallback = Null
  /\ Displayed = ShapesOfIndices(InitialIndices)

\* the animator is morphing exactly when it holds an animation handle
HandleIffMorphing(s) == (s.state = "morphing") <=> (s.animation # Null)

\* C36: in every state reached between events the animator's state is
\* 'morphing' exactly when it holds a running animation handle (also after a
\* stop), and whenever it is 'idle' after setInitialShapes or a completed
\* morph the displayed shapes (morphedShapes) equal currentShapes in content
\* and the progress is 1.
C36_AnimatorConsistent ==
  /\ state \in {"idle", "morphing"}
  /\ HandleIffMorphing(Cur)
  /\ HandleIffMorphing(stop(Cur))
  /\ (phase = "ready" /\ state = "idle") =>
       /\ currentShapes # Null
       /\ morphedShapes = currentShapes
       /\ Displayed = currentShapes
       /\ progress = Den

\* the animator is idle after a morph that has completed on other shapes
\* than the initial ones
C36_Witness ==
  /\ phase = "ready"
  /\ state = "idle"
  /\ animation = Null
  /\ onCompleteCallback # Null
  /\ targetShapes # Null
  /\ morphedShapes = targetShapes
  /\ currentShapes # ShapesOfIndices(InitialIndices)
  /\ progress = Den

\* a morph is in flight: the animator holds a handle and displays shapes
\* that differ from its current shapes
C36_InFlight ==
  /\ state = "morphing"
  /\ animation # Null
  /\ morphedShapes # currentShapes
  /\ progress < Den

=============================================================================
